---------------------------- MODULE Spec2Model ----------------------------
(***************************************************************************)
(* A model of UoA-DSC-Experiments/util.py: the evaluation toolkit of a     *)
(* binary image classifier (ROC sweep, trapezoid integrator, safe-set      *)
(* threshold search, k-fold cross-validation, learning-curve sweep).       *)
(*                                                                         *)
(* Each function of util.py is a small state machine over the shared       *)
(* program counter pc; every function has its own specification           *)
(* (SafesetSpec, RocSpec, AucSpec, KFoldSpec, PlotSpec) and Spec is their  *)
(* union.                                                                  *)
(*                                                                         *)
(* Numbers.  Arrays are sequences (Python index i is TLA+ index i+1).      *)
(* Scores are exact rationals on a grid: a safe-set prediction p stands    *)
(* for every real score in ((p-1)*dx, p*dx] (all of them compare alike     *)
(* with every threshold j*dx the sweep visits, p = 0 standing for every    *)
(* score <= 0); an ROC output o stands for the score o/Den.  A float       *)
(* quotient a/b is the record [num |-> a, den |-> b], den = 0 being the    *)
(* nan/inf numpy returns for a zero denominator.                           *)
(***************************************************************************)
EXTENDS Integers, Sequences, FiniteSets

VARIABLES
    pc,                 \* position of the running function
    predictions,        \* safeset_percent's scores; roc_curve's binarization
    targets,            \* the binary target vector of either
    \* safeset_percent(predictions, targets, tolerance, dx)
    tolerance, threshold, tolerance_exceeded, n_normal, n_abnormal,
    above_threshold, false_negatives, n_true_negatives, safeset,
    \* roc_curve(outputs, targets, n)
    outputs, n, thresholds, t, falsepos, truepos,
    \* area_under_curve(x, y), called for each curve by plot_crossval_auc
    curves, aucs, x, y, a, i,
    \* k_fold_crossvalidation(X, y, k, model, epochs, save_path)
    X, labels, k, epochs, weights, files, save_best, n_examples, w, fold,
    val_start, val_end, Xval, yval, Xtrain, epoch, roc_curves,
    safeset_percents, fit_log, init_saves,
    \* plot_safeset(X, y, model, divisions, listSizes, tmp_path)
    divisions, listSizes, len_y, py_major, shuffle_bound, stepSize, sizes,
    raised, saved, trained

sharedVars == <<predictions, targets>>

safesetVars == <<tolerance, threshold, tolerance_exceeded, n_normal,
                 n_abnormal, above_threshold, false_negatives,
                 n_true_negatives, safeset>>

rocVars == <<outputs, n, thresholds, t, falsepos, truepos>>

aucVars == <<curves, aucs, x, y, a, i>>

kfoldVars == <<X, labels, k, epochs, weights, files, save_best, n_examples,
               w, fold, val_start, val_end, Xval, yval, Xtrain, epoch,
               roc_curves, safeset_percents, fit_log, init_saves>>

plotVars == <<divisions, listSizes, len_y, py_major, shuffle_bound, stepSize,
              sizes, raised, saved, trained>>

vars == <<pc, sharedVars, safesetVars, rocVars, aucVars, kfoldVars, plotVars>>

notSafeset == <<rocVars, aucVars, kfoldVars, plotVars>>
notRoc == <<safesetVars, aucVars, kfoldVars, plotVars>>
notAuc == <<sharedVars, safesetVars, rocVars, kfoldVars, plotVars>>
notKFold == <<sharedVars, safesetVars, rocVars, aucVars, plotVars>>
notPlot == <<sharedVars, safesetVars, rocVars, aucVars, kfoldVars>>

(***************************************************************************)
(* Bounds of the model.                                                    *)
(***************************************************************************)
MaxLen == 3         \* longest prediction / target vector
MaxPred == 3        \* largest safe-set prediction, in steps of dx
MaxTol == 3         \* largest tolerance
MaxN == 4           \* largest number n of ROC thresholds
Den == 2            \* an ROC output o is the score o / Den
MaxCoord == 2       \* largest coordinate of a curve point
MaxRows == 6        \* largest number of examples of a dataset
MaxK == 3           \* largest number of folds
MaxEpochs == 2      \* largest epoch budget of a fit
MaxLoss == 3        \* largest validation loss of an epoch
MaxDiv == 3         \* largest number of divisions

(***************************************************************************)
(* Values and array helpers.                                               *)
(***************************************************************************)
\* a local name that is not bound yet (reading it would raise NameError)
Unbound == -1

RECURSIVE SeqSum(_)
\* ndarray.sum()
SeqSum(s) == IF s = <<>> THEN 0 ELSE Head(s) + SeqSum(Tail(s))

\* (a > t).astype("int16"), elementwise
GreaterThan(arr, thr) ==
    [idx \in DOMAIN arr |-> IF arr[idx] > thr THEN 1 ELSE 0]

\* a * b, elementwise
Times(arr, brr) == [idx \in DOMAIN arr |-> arr[idx] * brr[idx]]

\* 1 - a, elementwise
OneMinus(arr) == [idx \in DOMAIN arr |-> 1 - arr[idx]]

\* Python's None, and a value that is not None
None == <<>>
Some(v) == <<v>>

Min(p, q) == IF p <= q THEN p ELSE q

\* s[lo:hi] for 0 <= lo, 0 <= hi (a slice is clipped to the array)
Slice(s, lo, hi) == SubSeq(s, Min(lo, Len(s)) + 1, Min(hi, Len(s)))

Range(s) == {s[idx] : idx \in DOMAIN s}

\* d[key] = v on a dict d
Put(d, key, v) ==
    [f \in DOMAIN d \cup {key} |-> IF f = key THEN v ELSE d[f]]

\* the float quotient a / b
Quot(p, q) == [num |-> p, den |-> q]

\* s[::-1]
Reverse(s) == [idx \in DOMAIN s |-> s[Len(s) + 1 - idx]]

(***************************************************************************)
(* The state of a function that is not running.                            *)
(***************************************************************************)
SafesetIdle ==
    /\ tolerance = 0
    /\ threshold = Unbound /\ tolerance_exceeded = FALSE
    /\ n_normal = Unbound /\ n_abnormal = Unbound
    /\ above_threshold = <<>> /\ false_negatives = Unbound
    /\ n_true_negatives = Unbound /\ safeset = Quot(Unbound, Unbound)

RocIdle ==
    /\ outputs = <<>> /\ n = 0 /\ thresholds = <<>> /\ t = 0
    /\ falsepos = <<>> /\ truepos = <<>>

AucIdle ==
    /\ curves = <<>> /\ aucs = <<>> /\ x = <<>> /\ y = <<>>
    /\ a = Quot(0, 1) /\ i = 0

\* the weights the model has when k_fold_crossvalidation is called; the
\* weights after epoch e of the fit of fold f are [fold |-> f, epoch |-> e]
InitialWeights == [fold |-> Unbound, epoch |-> 0]

\* the content of a path no file is at
NoFile == [fold |-> Unbound, epoch |-> Unbound]

\* lines 137-138: the two checkpoint files under save_path
tmp_path == "init_weights.h5"

\* best_path with the file name of tmp_path: both checkpoints in one file
best_path_is_tmp_path == "init_weights.h5"

best_path == "best_weights.h5"

KFoldIdle ==
    /\ X = <<>> /\ labels = <<>> /\ k = 0 /\ epochs = 0
    /\ weights = InitialWeights /\ save_best = [best |-> Unbound]
    /\ files = [path \in {tmp_path, best_path} |-> NoFile]
    /\ n_examples = Unbound /\ w = Unbound /\ fold = Unbound
    /\ val_start = Unbound /\ val_end = Unbound
    /\ Xval = <<>> /\ yval = <<>> /\ Xtrain = <<>> /\ epoch = 0
    /\ roc_curves = <<>> /\ safeset_percents = <<>> /\ fit_log = <<>>
    /\ init_saves = 0

PlotIdle ==
    /\ divisions = None /\ listSizes = None /\ len_y = 0 /\ py_major = 0
    /\ shuffle_bound = FALSE /\ stepSize = Unbound /\ sizes = <<>>
    /\ raised = None /\ saved = FALSE /\ trained = <<>>

(***************************************************************************)
(* safeset_percent (util.py 102-123).                                      *)
(***************************************************************************)
\* Above every prediction all thresholds compare alike, so they are one
\* value: threshold += dx stops changing the state there (as the float
\* addition itself does once dx is below half an ulp of threshold).
ThresholdCap == MaxPred + 1

SafesetInit ==
    /\ pc = "safeset_call"
    /\ \E len \in 0..MaxLen :
         /\ predictions \in [1..len -> 0..MaxPred]
         /\ targets \in [1..len -> {0, 1}]
    /\ tolerance \in 0..MaxTol
    /\ threshold = Unbound /\ tolerance_exceeded = FALSE
    /\ n_normal = Unbound /\ n_abnormal = Unbound
    /\ above_threshold = <<>> /\ false_negatives = Unbound
    /\ n_true_negatives = Unbound /\ safeset = Quot(Unbound, Unbound)
    /\ RocIdle /\ AucIdle /\ KFoldIdle /\ PlotIdle

\* lines 110-113
SafesetCall ==
    /\ pc = "safeset_call"
    /\ threshold' = 0
    /\ tolerance_exceeded' = FALSE
    /\ n_normal' = SeqSum(OneMinus(targets))
    /\ n_abnormal' = Len(targets) - SeqSum(OneMinus(targets))
    /\ pc' = "safeset_while"
    /\ UNCHANGED <<predictions, targets, tolerance, above_threshold,
                   false_negatives, n_true_negatives, safeset, notSafeset>>

\* line 114, the loop goes on
SafesetWhile ==
    /\ pc = "safeset_while"
    /\ ~tolerance_exceeded
    /\ pc' = "safeset_body"
    /\ UNCHANGED <<sharedVars, safesetVars, notSafeset>>

\* SafesetBody with the count of line 121 skipped once the tolerance is
\* reached, so that the count of the step before is the one reported
SafesetBodyStopsBeforeCount ==
    LET above == GreaterThan(predictions, threshold)
        fn == SeqSum(Times(OneMinus(above), targets))
    IN  /\ pc = "safeset_body"
        /\ above_threshold' = above
        /\ false_negatives' = fn
        /\ tolerance_exceeded' = (fn >= tolerance)
        /\ n_true_negatives' =
             IF fn >= tolerance /\ n_true_negatives # Unbound
             THEN n_true_negatives
             ELSE SeqSum(Times(OneMinus(above), OneMinus(targets)))
        /\ threshold' = IF threshold >= ThresholdCap THEN threshold
                        ELSE threshold + 1
        /\ pc' = "safeset_while"
        /\ UNCHANGED <<predictions, targets, tolerance, n_normal, n_abnormal,
                       safeset, notSafeset>>

\* lines 115-122, one pass of the loop body
SafesetBody ==
    LET above == GreaterThan(predictions, threshold)
        fn == SeqSum(Times(OneMinus(above), targets))
    IN  /\ pc = "safeset_body"
        /\ above_threshold' = above
        /\ false_negatives' = fn
        /\ tolerance_exceeded' = (fn >= tolerance)
        /\ n_true_negatives' = SeqSum(Times(OneMinus(above), OneMinus(targets)))
        /\ threshold' = IF threshold >= ThresholdCap THEN threshold
                        ELSE threshold + 1
        /\ pc' = "safeset_while"
        /\ UNCHANGED <<predictions, targets, tolerance, n_normal, n_abnormal,
                       safeset, notSafeset>>

\* lines 114 and 123: the loop ends and the percentage is returned
SafesetReturn ==
    /\ pc = "safeset_while"
    /\ tolerance_exceeded
    /\ safeset' = Quot(100 * n_true_negatives, n_normal)
    /\ pc' = "safeset_done"
    /\ UNCHANGED <<predictions, targets, tolerance, threshold,
                   tolerance_exceeded, n_normal, n_abnormal, above_threshold,
                   false_negatives, n_true_negatives, notSafeset>>

SafesetNext == SafesetCall \/ SafesetWhile \/ SafesetBody \/ SafesetReturn

SafesetSpec == SafesetInit /\ [][SafesetNext]_vars

\* the interpreter runs the loop as long as it can
SafesetFairSpec == SafesetSpec /\ WF_vars(SafesetNext)

(***************************************************************************)
(* Claims about safeset_percent.                                           *)
(***************************************************************************)
\* targets equal to 1 whose prediction is not above threshold thr
FalseNegativesAt(thr) ==
    Cardinality({idx \in DOMAIN targets :
                    targets[idx] = 1 /\ ~(predictions[idx] > thr)})

\* targets equal to 0 whose prediction is not above threshold thr
TrueNegativesAt(thr) ==
    Cardinality({idx \in DOMAIN targets :
                    targets[idx] = 0 /\ ~(predictions[idx] > thr)})

\* every normal output is strictly below every abnormal output, and there
\* is at least one example of each class
PerfectSeparator ==
    /\ \E idx \in DOMAIN targets : targets[idx] = 0
    /\ \E idx \in DOMAIN targets : targets[idx] = 1
    /\ \A idx, jdx \in DOMAIN targets :
          targets[idx] = 0 /\ targets[jdx] = 1
             => predictions[idx] < predictions[jdx]

\* C3: whenever safeset_percent returns and tolerance >= 1, the threshold
\* at which the reported true-negative count was computed (the last one the
\* loop visited, threshold - dx) has no more false negatives than tolerance.
C3_FalseNegativesWithinTolerance ==
    pc = "safeset_done" /\ tolerance >= 1
       => /\ n_true_negatives = TrueNegativesAt(threshold - 1)
          /\ FalseNegativesAt(threshold - 1) <= tolerance

\* C4: safeset_percent terminates on every input.
C4_SafesetTerminates == <>(pc = "safeset_done")

\* C5 (as claimed): when the loop stops after more than one pass, the
\* reported true-negative count is the one of the preceding threshold step.
C5_CountOfPrecedingStep ==
    pc = "safeset_done" /\ threshold >= 2
       => n_true_negatives = TrueNegativesAt(threshold - 2)

\* C5 (amended): when safeset_percent returns, the reported true-negative
\* count is the one of the last threshold the loop visited, which is the
\* first threshold of the sweep whose false negatives reach or exceed
\* tolerance; every earlier threshold has fewer false negatives.
C5_CountOfStoppingStep ==
    pc = "safeset_done"
       => /\ threshold >= 1
          /\ n_true_negatives = TrueNegativesAt(threshold - 1)
          /\ safeset = Quot(100 * TrueNegativesAt(threshold - 1),
                            Cardinality({idx \in DOMAIN targets :
                                            targets[idx] = 0}))
          /\ FalseNegativesAt(threshold - 1) >= tolerance
          /\ \A thr \in 0..(threshold - 2) : FalseNegativesAt(thr) < tolerance

\* the loop stopped after several passes and the count of the stopping
\* step differs from the one of the step before it
C5_Witness ==
    /\ pc = "safeset_done" /\ threshold >= 3
    /\ n_true_negatives = TrueNegativesAt(threshold - 1)
    /\ TrueNegativesAt(threshold - 1) # TrueNegativesAt(threshold - 2)

\* C6: with tolerance 0 and a perfect separator safeset_percent returns 100.
C6_PerfectSeparatorGives100 ==
    pc = "safeset_done" /\ tolerance = 0 /\ PerfectSeparator
       => safeset.den > 0 /\ safeset.num = 100 * safeset.den

(***************************************************************************)
(* get_true_pos_rate, get_false_pos_rate, roc_curve (util.py 25-72).       *)
(***************************************************************************)
\* lines 30-32
get_true_pos_rate(preds, targs) ==
    Quot(SeqSum(Times(preds, targs)), SeqSum(targs))

\* lines 41-45
get_false_pos_rate(preds, targs) ==
    Quot(SeqSum(Times(preds, OneMinus(targs))), SeqSum(OneMinus(targs)))

\* np.linspace(0, 1, cnt): the sweep in the other direction
linspace_ascending(cnt) ==
    [idx \in 1..cnt |-> IF cnt = 1 THEN Quot(0, 1) ELSE Quot(idx - 1, cnt - 1)]

\* np.linspace(1, 0, cnt): cnt thresholds from 1 down to 0, evenly spaced
linspace_1_0(cnt) ==
    [idx \in 1..cnt |-> IF cnt = 1 THEN Quot(1, 1) ELSE Quot(cnt - idx, cnt - 1)]

\* (outs > thr).astype("int16") for scores outs[idx] / Den and a rational thr
Exceeds(outs, thr) ==
    [idx \in DOMAIN outs |-> IF outs[idx] * thr.den > thr.num * Den THEN 1 ELSE 0]

RocInit ==
    /\ pc = "roc_call"
    /\ \E len \in 0..MaxLen :
         /\ outputs \in [1..len -> (0 - 1)..(Den + 1)]
         /\ targets \in [1..len -> {0, 1}]
    /\ n \in 0..MaxN
    /\ predictions = <<>> /\ thresholds = <<>> /\ t = 0
    /\ falsepos = <<>> /\ truepos = <<>>
    /\ SafesetIdle /\ AucIdle /\ KFoldIdle /\ PlotIdle

\* lines 56-58
RocCall ==
    /\ pc = "roc_call"
    /\ thresholds' = linspace_1_0(n)
    /\ falsepos' = <<>> /\ truepos' = <<>>
    /\ t' = 0
    /\ pc' = "roc_for"
    /\ UNCHANGED <<outputs, n, sharedVars, notRoc>>

\* lines 60-70: the next threshold of the sweep (t counts those taken)
RocStep ==
    /\ pc = "roc_for"
    /\ t < Len(thresholds)
    /\ LET preds == Exceeds(outputs, thresholds[t + 1])
       IN  /\ predictions' = preds
           /\ falsepos' = Append(falsepos, get_false_pos_rate(preds, targets))
           /\ truepos' = Append(truepos, get_true_pos_rate(preds, targets))
    /\ t' = t + 1
    /\ UNCHANGED <<pc, outputs, n, thresholds, targets, notRoc>>

\* line 72
RocReturn ==
    /\ pc = "roc_for"
    /\ t = Len(thresholds)
    /\ pc' = "roc_done"
    /\ UNCHANGED <<sharedVars, rocVars, notRoc>>

RocNext == RocCall \/ RocStep \/ RocReturn

RocSpec == RocInit /\ [][RocNext]_vars

(***************************************************************************)
(* Claims about roc_curve.                                                 *)
(***************************************************************************)
\* the score o / Den is above the j-th of cnt thresholds evenly spaced from
\* 1 down to 0, that is above 1 - (j - 1) / (cnt - 1)
AboveThreshold(o, cnt, j) ==
    IF cnt = 1 THEN o > Den ELSE o * (cnt - 1) > (cnt - j) * Den

Positives == {idx \in DOMAIN targets : targets[idx] = 1}
Negatives == {idx \in DOMAIN targets : targets[idx] = 0}

\* the rational p is at most the rational q (positive denominators)
RateLeq(p, q) == p.num * q.den <= q.num * p.den

AucInit ==
    /\ pc = "auc_next_curve"
    /\ \E len \in 0..MaxLen :
         \E xs \in [1..len -> 0..MaxCoord], ys \in [1..len -> 0..MaxCoord] :
            curves = << <<xs, ys>>, <<Reverse(xs), Reverse(ys)>> >>
    /\ aucs = <<>> /\ x = <<>> /\ y = <<>> /\ a = Quot(0, 1) /\ i = 0
    /\ predictions = <<>> /\ targets = <<>>
    /\ SafesetIdle /\ RocIdle /\ KFoldIdle /\ PlotIdle

\* lines 172-174 and 80: the next curve is passed to area_under_curve
AucCall ==
    /\ pc = "auc_next_curve"
    /\ Len(aucs) < Len(curves)
    /\ x' = curves[Len(aucs) + 1][1]
    /\ y' = curves[Len(aucs) + 1][2]
    /\ a' = Quot(0, 1)
    /\ i' = 0
    /\ pc' = "auc_for"
    /\ UNCHANGED <<curves, aucs, notAuc>>

\* trapezium with y[i + 1] - y[i] for the sum y[i + 1] + y[i]
trapezium_of_differences(xs, ys, idx) ==
    (xs[idx + 2] - xs[idx + 1]) * (ys[idx + 2] - ys[idx + 1])

\* line 83, twice the trapezium between points idx and idx + 1 (0-based)
trapezium(xs, ys, idx) ==
    (xs[idx + 2] - xs[idx + 1]) * (ys[idx + 2] + ys[idx + 1])

\* lines 81-83: one pass of the loop, i in range(0, len(x) - 1)
AucStep ==
    /\ pc = "auc_for"
    /\ i < Len(x) - 1
    /\ a' = Quot(a.num + trapezium(x, y, i), 1)
    /\ i' = i + 1
    /\ UNCHANGED <<pc, curves, aucs, x, y, notAuc>>

\* lines 84-85 and 174: a * 0.5 is returned and appended to aucs
AucReturn ==
    /\ pc = "auc_for"
    /\ i >= Len(x) - 1
    /\ a' = Quot(a.num, 2)
    /\ aucs' = Append(aucs, Quot(a.num, 2))
    /\ pc' = "auc_next_curve"
    /\ UNCHANGED <<curves, x, y, i, notAuc>>

\* line 172: no curve is left
AucDone ==
    /\ pc = "auc_next_curve"
    /\ Len(aucs) = Len(curves)
    /\ pc' = "auc_done"
    /\ UNCHANGED <<aucVars, notAuc>>

AucNext == AucCall \/ AucStep \/ AucReturn \/ AucDone

AucSpec == AucInit /\ [][AucNext]_vars

(***************************************************************************)
(* Claims about area_under_curve.                                          *)
(***************************************************************************)
\* C8 (as claimed): the area of the reversed curve equals the area of the
\* curve.
C8_ReversalKeepsArea ==
    pc = "auc_done" => aucs[2] = aucs[1]

\* C8 (amended): the area of the curve with both sequences reversed is the
\* negation of the area of the curve (each difference x[i+1] - x[i] changes
\* sign, each sum y[i+1] + y[i] does not).
C8_ReversalNegatesArea ==
    pc = "auc_done"
       => /\ Len(aucs) = 2
          /\ aucs[1].den = 2 /\ aucs[2].den = 2
          /\ aucs[2].num = 0 - aucs[1].num

\* both orders of a curve of three points with a non-zero area are integrated
C8_Witness ==
    /\ pc = "auc_done" /\ Len(curves[1][1]) = 3
    /\ aucs[1].num > 0 /\ aucs[2].num < 0

(***************************************************************************)
(* k_fold_crossvalidation (util.py 131-165).                               *)
(*                                                                         *)
(* The rows of X are named 0 .. N-1; y is sliced with the same bounds as   *)
(* X, so labels[r + 1] is the target of row r.  The model is the black box *)
(* of the four operations fit, predict, save_weights, load_weights: its    *)
(* weights are named by the fit that produced them.  predict is a function *)
(* of the weights and the rows it is given, so the ROC curve and the       *)
(* safe-set percentage of a fold are named by the weights and the          *)
(* validation rows they were computed from.  fit_log is the list of the    *)
(* calls of model.fit and init_saves the number of writes of tmp_path.     *)
(***************************************************************************)
\* ModelCheckpoint(save_best_only=True) starts with best = +inf (monitor
\* val_loss, mode min); Inf is above every validation loss
Inf == MaxLoss + 1

KFoldInit ==
    /\ pc = "kfold_call"
    /\ \E rows \in 0..MaxRows :
         /\ X = [idx \in 1..rows |-> idx - 1]
         /\ labels \in [1..rows -> {0, 1}]
    /\ k \in 1..MaxK
    /\ epochs \in 0..MaxEpochs
    /\ weights = InitialWeights /\ save_best = [best |-> Unbound]
    /\ files = [path \in {tmp_path, best_path} |-> NoFile]
    /\ n_examples = Unbound /\ w = Unbound /\ fold = Unbound
    /\ val_start = Unbound /\ val_end = Unbound
    /\ Xval = <<>> /\ yval = <<>> /\ Xtrain = <<>> /\ epoch = 0
    /\ roc_curves = <<>> /\ safeset_percents = <<>> /\ fit_log = <<>>
    /\ init_saves = 0
    /\ predictions = <<>> /\ targets = <<>>
    /\ SafesetIdle /\ RocIdle /\ AucIdle /\ PlotIdle

\* lines 136-145
KFoldCall ==
    /\ pc = "kfold_call"
    /\ save_best' = [best |-> Inf]
    /\ files' = [files EXCEPT ![tmp_path] = weights]
    /\ init_saves' = init_saves + 1
    /\ n_examples' = Len(X)
    /\ w' = Len(X) \div k
    /\ roc_curves' = <<>>
    /\ safeset_percents' = <<>>
    /\ pc' = "kfold_for"
    /\ UNCHANGED <<X, labels, k, epochs, weights, fold, val_start, val_end,
                   Xval, yval, Xtrain, epoch, fit_log, notKFold>>

\* train_rows with arr[val_start:] for arr[val_end:]: the validation slice
\* is trained on
train_rows_from_val_start(arr, vstart, vend) ==
    Slice(arr, vstart, Len(arr)) \o Slice(arr, 0, vstart)

\* lines 154-155: np.concatenate([arr[val_end:], arr[:val_start]])
train_rows(arr, vstart, vend) ==
    Slice(arr, vend, Len(arr)) \o Slice(arr, 0, vstart)

\* lines 146-155: the next fold; the initial checkpoint is restored and the
\* data sliced
KFoldReset ==
    /\ pc = "kfold_for"
    /\ LET next == IF fold = Unbound THEN 0 ELSE fold + 1
           vstart == w * next
           vend == vstart + w
       IN  /\ next < k
           /\ fold' = next
           /\ weights' = files[tmp_path]
           /\ val_start' = vstart
           /\ val_end' = vend
           /\ Xval' = Slice(X, vstart, vend)
           /\ yval' = Slice(labels, vstart, vend)
           /\ Xtrain' = train_rows(X, vstart, vend)
    /\ pc' = "kfold_fit"
    /\ UNCHANGED <<X, labels, k, epochs, files, save_best, n_examples, w,
                   epoch, roc_curves, safeset_percents, fit_log, init_saves,
                   notKFold>>

\* lines 156-158: model.fit is called
KFoldFit ==
    /\ pc = "kfold_fit"
    /\ fit_log' = Append(fit_log, [fold |-> fold, weights |-> weights,
                                   Xtrain |-> Xtrain, Xval |-> Xval])
    /\ epoch' = 0
    /\ pc' = "kfold_epoch"
    /\ UNCHANGED <<X, labels, k, epochs, weights, files, save_best,
                   n_examples, w, fold, val_start, val_end, Xval, yval,
                   Xtrain, roc_curves, safeset_percents, init_saves,
                   notKFold>>

\* inside model.fit: one epoch trains the weights, then the callback
\* save_best sees the epoch's validation loss and writes best_path when the
\* loss is below the best it has seen since it was constructed (line 139)
KFoldEpoch ==
    /\ pc = "kfold_epoch"
    /\ epoch < epochs
    /\ \E val_loss \in 1..MaxLoss :
         LET trained_weights == [fold |-> fold, epoch |-> epoch + 1]
         IN  /\ weights' = trained_weights
             /\ IF val_loss < save_best.best
                THEN /\ save_best' = [best |-> val_loss]
                     /\ files' = [files EXCEPT ![best_path] = trained_weights]
                ELSE UNCHANGED <<save_best, files>>
    /\ epoch' = epoch + 1
    /\ UNCHANGED <<pc, X, labels, k, epochs, n_examples, w, fold, val_start,
                   val_end, Xval, yval, Xtrain, roc_curves, safeset_percents,
                   fit_log, init_saves, notKFold>>

\* lines 160-164: model.fit has returned; the best checkpoint is loaded and
\* the fold evaluated.  get_safeset (tolerance 1) returns because yval
\* holds a positive target.
KFoldEval ==
    /\ pc = "kfold_epoch"
    /\ epoch = epochs
    /\ files[best_path] # NoFile
    /\ \E idx \in DOMAIN yval : yval[idx] = 1
    /\ weights' = files[best_path]
    /\ roc_curves' = Put(roc_curves, fold,
                         [weights |-> files[best_path], rows |-> Xval])
    /\ safeset_percents' = Append(safeset_percents,
                                  [weights |-> files[best_path], rows |-> Xval])
    /\ pc' = "kfold_for"
    /\ UNCHANGED <<X, labels, k, epochs, files, save_best, n_examples, w,
                   fold, val_start, val_end, Xval, yval, Xtrain, epoch,
                   fit_log, init_saves, notKFold>>

\* line 160: no file is at best_path, load_weights raises
KFoldNoBestFile ==
    /\ pc = "kfold_epoch"
    /\ epoch = epochs
    /\ files[best_path] = NoFile
    /\ pc' = "kfold_raised"
    /\ UNCHANGED <<kfoldVars, notKFold>>

\* lines 160-164: as KFoldEval, but yval holds no positive target, so the
\* loop of safeset_percent (tolerance 1) under get_safeset never ends
KFoldSafesetLoops ==
    /\ pc = "kfold_epoch"
    /\ epoch = epochs
    /\ files[best_path] # NoFile
    /\ \A idx \in DOMAIN yval : yval[idx] = 0
    /\ weights' = files[best_path]
    /\ roc_curves' = Put(roc_curves, fold,
                         [weights |-> files[best_path], rows |-> Xval])
    /\ pc' = "kfold_safeset_while"
    /\ UNCHANGED <<X, labels, k, epochs, files, save_best, n_examples, w,
                   fold, val_start, val_end, Xval, yval, Xtrain, epoch,
                   safeset_percents, fit_log, init_saves, notKFold>>

\* lines 146 and 165: no fold is left
KFoldReturn ==
    /\ pc = "kfold_for"
    /\ (IF fold = Unbound THEN 0 ELSE fold + 1) >= k
    /\ pc' = "kfold_done"
    /\ UNCHANGED <<kfoldVars, notKFold>>

KFoldNext ==
    \/ KFoldCall \/ KFoldReset \/ KFoldFit \/ KFoldEpoch \/ KFoldEval
    \/ KFoldNoBestFile \/ KFoldSafesetLoops \/ KFoldReturn

KFoldSpec == KFoldInit /\ [][KFoldNext]_vars

(***************************************************************************)
(* Claims about k_fold_crossvalidation.                                    *)
(***************************************************************************)
\* C1: the initial checkpoint is written exactly once, before the first
\* fold, and never overwritten; at every call of model.fit (fold 0, 1, ...
\* in this order) the model has the weights it had when
\* k_fold_crossvalidation was called.
C1_FoldsStartFromInitialWeights ==
    /\ pc = "kfold_call" => init_saves = 0 /\ fit_log = <<>>
    /\ pc # "kfold_call"
          => init_saves = 1 /\ files[tmp_path] = InitialWeights
    /\ \A j \in DOMAIN fit_log :
          fit_log[j].fold = j - 1 /\ fit_log[j].weights = InitialWeights

\* model.fit is called for a second fold, after a first fold was trained,
\* checkpointed and evaluated with weights that are not the initial ones
C1_Witness ==
    /\ pc = "kfold_epoch" /\ epoch = 0 /\ Len(fit_log) = 2
    /\ files[best_path] = [fold |-> 0, epoch |-> 1]
    /\ roc_curves[0].weights # InitialWeights
    /\ weights = InitialWeights

\* C2: when k divides the number of examples, the training rows of every
\* fold are all rows but the fold's validation slice, each once, and after
\* the last fold every row is in the validation slice of exactly one fold.
C2_FoldsPartitionRows ==
    Len(X) % k = 0
       => /\ \A j \in DOMAIN fit_log :
                LET f == fit_log[j]
                IN  /\ f.Xval =
                          [idx \in 1..(Len(X) \div k) |->
                              (j - 1) * (Len(X) \div k) + idx - 1]
                    /\ Range(f.Xtrain) = Range(X) \ Range(f.Xval)
                    /\ Len(f.Xtrain) = Len(X) - Len(f.Xval)
          /\ pc = "kfold_done"
                => /\ Len(fit_log) = k
                   /\ \A row \in Range(X) :
                         Cardinality({j \in DOMAIN fit_log :
                                         row \in Range(fit_log[j].Xval)}) = 1

\* three folds of two rows each have all been run
C2_Witness ==
    /\ pc = "kfold_done" /\ k = 3 /\ Len(X) = 6 /\ Len(fit_log) = 3
    /\ fit_log[2].Xval = <<2, 3>> /\ fit_log[2].Xtrain = <<4, 5, 0, 1>>

\* C9: the weights every fold is evaluated with (the best checkpoint loaded
\* after model.fit) were written during that fold's own training.
C9_BestCheckpointOfOwnFold ==
    \A f \in DOMAIN roc_curves : roc_curves[f].weights.fold = f

(***************************************************************************)
(* plot_safeset (util.py 187-223).                                         *)
(*                                                                         *)
(* util.py neither imports nor defines shuffle, so line 199 raises         *)
(* NameError unless the caller has bound the name in the module            *)
(* (shuffle_bound).  len(y) / divisions is an int under Python 2 and a     *)
(* float under Python 3 (py_major), where range refuses it.  The model is  *)
(* the black box of section "k_fold_crossvalidation"; of the loop of lines *)
(* 214-220 the model keeps the sizes trained on.                           *)
(***************************************************************************)
\* the lists of increasing sizes of at most two elements, up to top
IncreasingLists(top) ==
    {<<>>} \cup {<<p>> : p \in 1..top}
           \cup UNION {{<<p, q>> : q \in (p + 1)..top} : p \in 1..top}

PlotInit ==
    /\ pc = "plot_call"
    /\ len_y \in 0..MaxRows
    /\ divisions \in {None} \cup {Some(d) : d \in 0..MaxDiv}
    /\ listSizes \in {None} \cup {Some(l) : l \in IncreasingLists(len_y)}
    /\ py_major \in {2, 3}
    /\ shuffle_bound \in BOOLEAN
    /\ stepSize = Unbound /\ sizes = <<>>
    /\ raised = None /\ saved = FALSE /\ trained = <<>>
    /\ predictions = <<>> /\ targets = <<>>
    /\ SafesetIdle /\ RocIdle /\ AucIdle /\ KFoldIdle

\* line 199
PlotShuffle ==
    /\ pc = "plot_call"
    /\ shuffle_bound
    /\ pc' = "plot_config"
    /\ UNCHANGED <<plotVars, notPlot>>

\* line 199, the name shuffle is not bound
PlotShuffleUnbound ==
    /\ pc = "plot_call"
    /\ ~shuffle_bound
    /\ raised' = Some([type |-> "NameError", line |-> 199])
    /\ pc' = "plot_raised"
    /\ UNCHANGED <<divisions, listSizes, len_y, py_major, shuffle_bound,
                   stepSize, sizes, saved, trained, notPlot>>

\* range(start, stop, step) for step > 0
RangeList(start, stop, step) ==
    [idx \in 1..(IF stop > start THEN (stop - start + step - 1) \div step
                 ELSE 0) |-> start + (idx - 1) * step]

\* lines 201-203 under Python 2: divisions is given (whatever listSizes is)
PlotDivisions ==
    /\ pc = "plot_config"
    /\ divisions # None
    /\ divisions[1] # 0
    /\ py_major = 2
    /\ len_y \div divisions[1] # 0
    /\ stepSize' = len_y \div divisions[1]
    /\ sizes' = RangeList(len_y \div divisions[1], len_y,
                          len_y \div divisions[1])
    /\ pc' = "plot_save"
    /\ UNCHANGED <<divisions, listSizes, len_y, py_major, shuffle_bound,
                   raised, saved, trained, notPlot>>

\* lines 201-203: divisions is given and the arithmetic raises: a division
\* by zero, a float step size (Python 3), a zero step size (Python 2)
PlotDivisionsRaises ==
    /\ pc = "plot_config"
    /\ divisions # None
    /\ \/ /\ divisions[1] = 0
          /\ raised' = Some([type |-> "ZeroDivisionError", line |-> 202])
          /\ stepSize' = stepSize
       \/ /\ divisions[1] # 0
          /\ py_major = 3
          /\ raised' = Some([type |-> "TypeError", line |-> 203])
          /\ stepSize' = len_y \div divisions[1]
       \/ /\ divisions[1] # 0
          /\ py_major = 2
          /\ len_y \div divisions[1] = 0
          /\ raised' = Some([type |-> "ValueError", line |-> 203])
          /\ stepSize' = 0
    /\ pc' = "plot_raised"
    /\ UNCHANGED <<divisions, listSizes, len_y, py_major, shuffle_bound,
                   sizes, saved, trained, notPlot>>

\* lines 204-205: only listSizes is given
PlotListSizes ==
    /\ pc = "plot_config"
    /\ divisions = None
    /\ listSizes # None
    /\ sizes' = listSizes[1]
    /\ pc' = "plot_save"
    /\ UNCHANGED <<divisions, listSizes, len_y, py_major, shuffle_bound,
                   stepSize, raised, saved, trained, notPlot>>

\* lines 206-208: neither is given
PlotNeither ==
    /\ pc = "plot_config"
    /\ divisions = None
    /\ listSizes = None
    /\ raised' = Some([type |-> "ValueError", line |-> 208])
    /\ pc' = "plot_raised"
    /\ UNCHANGED <<divisions, listSizes, len_y, py_major, shuffle_bound,
                   stepSize, sizes, saved, trained, notPlot>>

\* lines 210-212: model.save_weights(tmp_path)
PlotSave ==
    /\ pc = "plot_save"
    /\ saved' = TRUE
    /\ pc' = "plot_for"
    /\ UNCHANGED <<divisions, listSizes, len_y, py_major, shuffle_bound,
                   stepSize, sizes, raised, trained, notPlot>>

\* lines 214-220: the next size: the weights are restored, the model
\* trained on the prefix and its safe-set percentage taken
PlotTrain ==
    /\ pc = "plot_for"
    /\ Len(trained) < Len(sizes)
    /\ trained' = Append(trained, sizes[Len(trained) + 1])
    /\ UNCHANGED <<pc, divisions, listSizes, len_y, py_major, shuffle_bound,
                   stepSize, sizes, raised, saved, notPlot>>

\* lines 222-223
PlotShow ==
    /\ pc = "plot_for"
    /\ Len(trained) = Len(sizes)
    /\ pc' = "plot_done"
    /\ UNCHANGED <<plotVars, notPlot>>

PlotNext ==
    \/ PlotShuffle \/ PlotShuffleUnbound \/ PlotDivisions
    \/ PlotDivisionsRaises \/ PlotListSizes \/ PlotNeither \/ PlotSave
    \/ PlotTrain \/ PlotShow

PlotSpec == PlotInit /\ [][PlotNext]_vars

(***************************************************************************)
(* Claims about plot_safeset.                                              *)
(***************************************************************************)
\* C7: when both divisions and listSizes are given, and when neither is,
\* plot_safeset raises before it saves weights or trains the model: it
\* never saves, never trains and never returns.
C7_BothOrNeitherRaisesBeforeSave ==
    (divisions # None) = (listSizes # None)
       => ~saved /\ trained = <<>> /\ pc # "plot_done"

(***************************************************************************)
(* The toolkit: any one of its functions is called.                        *)
(***************************************************************************)
Init == SafesetInit \/ RocInit \/ AucInit \/ KFoldInit \/ PlotInit

Next == SafesetNext \/ RocNext \/ AucNext \/ KFoldNext \/ PlotNext

Spec == Init /\ [][Next]_vars

=============================================================================
